---- MODULE Spec2Model ----
(***************************************************************************)
(* smart-textarea: the request-orchestration core.                         *)
(*                                                                         *)
(*   useOptimizedAutocomplete  src/src/hooks/useAutocomplete.ts 153-293    *)
(*   useSmartTrigger           src/src/hooks/useAutocomplete.ts 315-419    *)
(*   CompletionCache           src/src/utils/cache.ts                      *)
(*                                                                         *)
(* Strings are sequences of one-character strings.  A nullable value       *)
(* (string | null, a ref's current) is Null or Some(v).  The clock `now`   *)
(* is Date.now() in units of 50 ms.  All code runs on one event loop, so   *)
(* each handler, timer callback and promise continuation is one step.      *)
(***************************************************************************)
EXTENDS Integers, Sequences, FiniteSets, TLC

VARIABLES
    completion,         \* useState<string | null>            (line 166)
    isLoading,          \* useState(false)                    (line 167)
    error,              \* useState<Error | null>             (line 168)
    stats,              \* { apiCalls, cacheHits, tokensUsed } (line 169)
    abortControllerRef, \* id of the request whose controller the ref holds, 0: null
    currentRequestRef,  \* Null or Some([text, cursorPosition]) (line 172)
    inflight,           \* engine calls that have not settled yet, each with its controller's flag
    nextId,             \* identity of the next engine call
    cache,              \* completionCache: the Map's entries in insertion order
    lastKeyTime,        \* TriggerState                        (lines 308-313)
    lastTriggerTime,
    lastText,
    pauseTimer,         \* the handle the trigger state holds: Null or Some(timer)
    timers,             \* the timeouts the runtime still has scheduled
    now,                \* Date.now()
    enabled,            \* provider && enabled                 (line 176)
    enableCache,        \* option enableCache                  (line 162)
    triggerAtBreakpoints, \* option triggerAtBreakpoints       (line 161)
    component,          \* the textarea component around the hook: which one, its value
                        \* prop and its cursorPosition state
    context,            \* AutocompleteProvider: provider, isLoading, error and the
                        \* setProvider calls awaiting isAvailable()
    local,              \* a LocalProvider: engine, isInitializing, initPromise, the
                        \* complete() calls under way
    ev                  \* the step just taken and what it did (observation only)

vars == <<completion, isLoading, error, stats, abortControllerRef, currentRequestRef,
          inflight, nextId, cache, lastKeyTime, lastTriggerTime, lastText, pauseTimer,
          timers, now, enabled, enableCache, triggerAtBreakpoints, component, context,
          local, ev>>

---------------------------------------------------------------------------
(* Bounds and configuration *)

MaxRequests == 2        \* engine calls per run
MaxCacheHits == 1       \* cache hits counted per run
Horizon == 2            \* clock units a run lasts

PauseThreshold == 2     \* option pauseThreshold, in clock units
Cooldown == 1           \* option cooldown
MinChars == 2           \* option minChars
MaxSize == 2            \* CompletionCache maxSize
Ttl == 1                \* CompletionCache ttlMs
PauseSlack == 1         \* the 50 ms of `pauseThreshold - 50`
SignificantDelta == 3   \* `> 3` of significantChange
KeyWindow == 200        \* `cursorPosition - 200` of generateKey

T0 == Cooldown + 1      \* Date.now() at mount: far more than cooldown after time 0
MaxTime == T0 + Horizon

Null == <<>>
Some(v) == <<v>>

Whitespace == {" ", "\n"}
Breakpoints == Whitespace \cup {".", ",", "!", "?", ";", ":"}
SentenceEnd == {".", "!", "?"}

\* The observations (text, cursorPosition) the textarea reports.
Observations ==
    { <<<<"a", "b", ".">>, 3>>,
      <<<<"a", "b", ".", " ">>, 4>>,
      <<<<"a", "b", ".", "c">>, 4>>,
      <<<<"a", "b", ".", "c", "d">>, 5>>,
      <<<<"a", "b", "!", "c">>, 3>> }

\* What the engine's promise may resolve with ...
Responses ==
    { [kind |-> "ok", completion |-> <<"c", "d">>],
      [kind |-> "ok", completion |-> <<" ", "d">>],
      [kind |-> "ok", completion |-> <<" ">>],
      [kind |-> "none", completion |-> <<>>],        \* no response object
      [kind |-> "missing", completion |-> <<>>],     \* completion field undefined
      [kind |-> "nonstring", completion |-> <<>>] }  \* completion is not a string

\* ... or reject with: an Error, an Error named AbortError, a value that is no Error.
Rejections == {"Error", "AbortError", "NonError"}

---------------------------------------------------------------------------
(* String primitives *)

Max(a, b) == IF a >= b THEN a ELSE b
Min(a, b) == IF a <= b THEN a ELSE b

\* String.prototype.substring(a, b), 0 <= a
substring(s, a, b) == SubSeq(s, Min(a, Len(s)) + 1, Min(b, Len(s)))

\* String.prototype.slice(n), 0 <= n
slice(s, n) == SubSeq(s, n + 1, Len(s))

startsWith(s, p) == Len(p) <= Len(s) /\ SubSeq(s, 1, Len(p)) = p

RECURSIVE trimStart(_)
trimStart(s) ==
    IF s # <<>> /\ Head(s) \in Whitespace THEN trimStart(Tail(s)) ELSE s

RECURSIVE trimEnd(_)
trimEnd(s) ==
    IF s # <<>> /\ s[Len(s)] \in Whitespace THEN trimEnd(SubSeq(s, 1, Len(s) - 1)) ELSE s

trim(s) == trimEnd(trimStart(s))

\* s.split(/\s+/).length for a trimmed, non-empty s: one more than its whitespace runs
splitLength(s) ==
    1 + Cardinality({i \in 2..Len(s) : s[i] \in Whitespace /\ s[i - 1] \notin Whitespace})

---------------------------------------------------------------------------
(* CompletionCache (src/src/utils/cache.ts).  The Map is the sequence of its
   entries [key, completion, timestamp] in insertion order. *)

\* JavaScript truthiness of a string | null | undefined value
truthy(v) == v # Null /\ v[1] # <<>>

indexOf(c, key) ==
    IF \E i \in 1..Len(c) : c[i].key = key
    THEN CHOOSE i \in 1..Len(c) : c[i].key = key
    ELSE 0

\* Map.prototype.delete
mapDelete(c, key) == SelectSeq(c, LAMBDA e : e.key # key)

\* Map.prototype.set: an existing key keeps its place in the insertion order
mapSet(c, key, entry) ==
    IF indexOf(c, key) # 0
    THEN [c EXCEPT ![indexOf(c, key)] = entry]
    ELSE Append(c, entry)

generateKey(text, cursorPosition) ==
    trim(substring(text, Max(0, cursorPosition - KeyWindow), cursorPosition))

\* an entry that expires the moment it is ttl old (>= for >)
expiredInclusive(entry, t) == t - entry.timestamp >= Ttl

expired(entry, t) == t - entry.timestamp > Ttl

\* get: the value returned and the cache it leaves
get(c, t, text, cursorPosition) ==
    LET key == generateKey(text, cursorPosition)
        i == indexOf(c, key)
    IN  IF i = 0 THEN [value |-> Null, cache |-> c]
        ELSE IF expired(c[i], t) THEN [value |-> Null, cache |-> mapDelete(c, key)]
        ELSE [value |-> Some(c[i].completion), cache |-> c]

\* the `if (this.cache.size >= this.maxSize)` block of set
evictOldest(c) ==
    IF Len(c) >= MaxSize /\ c # <<>> /\ c[1].key # <<>>
    THEN mapDelete(c, c[1].key)
    ELSE c

set(c, t, text, cursorPosition, compl) ==
    LET key == generateKey(text, cursorPosition)
    IN  mapSet(evictOldest(c), key,
               [key |-> key, completion |-> compl, timestamp |-> t])

clear(c) == <<>>

\* whether entry e serves key in the prefix scan of getByPrefix
\* prefixMatch without the `continue` on an expired entry
prefixMatchNoTtl(e, key, t) ==
    /\ startsWith(key, e.key)
    /\ e.completion # <<>>
    /\ startsWith(e.completion, slice(key, Len(e.key)))

prefixMatch(e, key, t) ==
    /\ ~expired(e, t)
    /\ startsWith(key, e.key)
    /\ e.completion # <<>>
    /\ startsWith(e.completion, slice(key, Len(e.key)))

\* getByPrefix without `.slice(extraTyped.length)`: the whole cached completion
getByPrefixWhole(c, t, text, cursorPosition) ==
    LET key == generateKey(text, cursorPosition)
        exact == get(c, t, text, cursorPosition)
        c1 == exact.cache
        hits == {i \in 1..Len(c1) : prefixMatch(c1[i], key, t)}
    IN  IF truthy(exact.value) THEN exact
        ELSE IF hits = {} THEN [value |-> Null, cache |-> c1]
        ELSE LET i == CHOOSE j \in hits : \A k \in hits : j <= k
             IN  [value |-> Some(c1[i].completion), cache |-> c1]

getByPrefix(c, t, text, cursorPosition) ==
    LET key == generateKey(text, cursorPosition)
        exact == get(c, t, text, cursorPosition)
        c1 == exact.cache
        hits == {i \in 1..Len(c1) : prefixMatch(c1[i], key, t)}
    IN  IF truthy(exact.value) THEN exact
        ELSE IF hits = {} THEN [value |-> Null, cache |-> c1]
        ELSE LET i == CHOOSE j \in hits : \A k \in hits : j <= k
             IN  [value |-> Some(slice(c1[i].completion, Len(key) - Len(c1[i].key))),
                  cache |-> c1]

---------------------------------------------------------------------------
(* The hook's state as one record, so that a handler is a function from the
   state before it to the state after it and handlers compose as the code
   calls them. *)

NoReq == [id |-> 0, text |-> <<>>, cursorPosition |-> 0, aborted |-> FALSE]

\* What a step reports: the operation, the value the engine rejected with, whether
\* the trigger fired, whether the cache was consulted and the value it returned,
\* the engine call made, what acceptCompletion (or a cache read) returned, and
\* whether a scheduled timeout was cancelled.  The runs of the trigger engine and of
\* the cache on their own also report the arguments of the call (obs), the
\* observation before it (prev), the latest observation (last), both with whether
\* they have fired, and the last set still standing (lastSet).
Event(op) ==
    [op |-> op, err |-> "", fired |-> FALSE, lookup |-> FALSE, cached |-> Null,
     dispatched |-> 0, ret |-> <<>>, cleared |-> FALSE,
     obs |-> Null, prev |-> Null, last |-> Null, lastSet |-> Null,
     prevented |-> FALSE, calls |-> <<>>]

Cur ==
    [completion |-> completion, isLoading |-> isLoading, error |-> error, stats |-> stats,
     abortControllerRef |-> abortControllerRef, currentRequestRef |-> currentRequestRef,
     inflight |-> inflight, nextId |-> nextId, cache |-> cache,
     lastKeyTime |-> lastKeyTime, lastTriggerTime |-> lastTriggerTime,
     lastText |-> lastText, pauseTimer |-> pauseTimer, timers |-> timers, now |-> now,
     enabled |-> enabled, enableCache |-> enableCache,
     triggerAtBreakpoints |-> triggerAtBreakpoints, component |-> component,
     context |-> context, local |-> local, ev |-> ev]

Begin(op) == [Cur EXCEPT !.ev = Event(op)]

Commit(s) ==
    /\ completion' = s.completion
    /\ isLoading' = s.isLoading
    /\ error' = s.error
    /\ stats' = s.stats
    /\ abortControllerRef' = s.abortControllerRef
    /\ currentRequestRef' = s.currentRequestRef
    /\ inflight' = s.inflight
    /\ nextId' = s.nextId
    /\ cache' = s.cache
    /\ lastKeyTime' = s.lastKeyTime
    /\ lastTriggerTime' = s.lastTriggerTime
    /\ lastText' = s.lastText
    /\ pauseTimer' = s.pauseTimer
    /\ timers' = s.timers
    /\ now' = s.now
    /\ enabled' = s.enabled
    /\ enableCache' = s.enableCache
    /\ triggerAtBreakpoints' = s.triggerAtBreakpoints
    /\ component' = s.component
    /\ context' = s.context
    /\ local' = s.local
    /\ ev' = s.ev

\* The run stays within the bounds on engine calls and counted cache hits.
WithinBounds(s) ==
    /\ s.nextId <= MaxRequests + 1
    /\ s.stats.cacheHits <= MaxCacheHits

---------------------------------------------------------------------------
(* useOptimizedAutocomplete.requestCompletion, lines 174-236 *)

\* AbortController.abort() on the controller of engine call id
abort(s, id) ==
    [s EXCEPT !.inflight = {IF r.id = id THEN [r EXCEPT !.aborted = TRUE] ELSE r : r \in @}]

\* lines 188-191 (and 269-271): if (abortControllerRef.current) abort()
abortCurrent(s) ==
    IF s.abortControllerRef # 0 THEN abort(s, s.abortControllerRef) ELSE s

\* dispatch that leaves the previous controller alone
dispatchNoAbort(s, text, cursorPosition) ==
    LET req == [id |-> s.nextId, text |-> text, cursorPosition |-> cursorPosition,
                aborted |-> FALSE]
    IN  [s EXCEPT !.abortControllerRef = req.id,
                  !.currentRequestRef =
                      Some([text |-> text, cursorPosition |-> cursorPosition]),
                  !.isLoading = TRUE,
                  !.error = "null",
                  !.inflight = @ \cup {req},
                  !.nextId = @ + 1,
                  !.ev.dispatched = req.id]

\* lines 188-204: the cache missed; supersede and call the engine
dispatch(s, text, cursorPosition) ==
    LET s1 == abortCurrent(s)
        req == [id |-> s.nextId, text |-> text, cursorPosition |-> cursorPosition,
                aborted |-> FALSE]
    IN  [s1 EXCEPT !.abortControllerRef = req.id,
                   !.currentRequestRef =
                       Some([text |-> text, cursorPosition |-> cursorPosition]),
                   !.isLoading = TRUE,
                   !.error = "null",
                   !.inflight = @ \cup {req},
                   !.nextId = @ + 1,
                   !.ev.dispatched = req.id]

\* a cache hit that is not counted
cacheHitNoCount(s, cached) == [s EXCEPT !.completion = cached]

\* lines 181-185: the cache hit
cacheHit(s, cached) ==
    [s EXCEPT !.completion = cached,
              !.stats.cacheHits = @ + 1]

\* lines 174-204: requestCompletion up to its await
requestCompletion(s, text, cursorPosition) ==
    IF ~s.enabled THEN s
    ELSE IF s.enableCache
    THEN LET look == getByPrefix(s.cache, s.now, text, cursorPosition)
             s1 == [s EXCEPT !.cache = look.cache, !.ev.lookup = TRUE,
                             !.ev.cached = look.value]
         IN  IF truthy(look.value)
             THEN cacheHit(s1, look.value)
             ELSE dispatch(s1, text, cursorPosition)
    ELSE dispatch(s, text, cursorPosition)

\* lines 207-210: the response is for the request currentRequestRef names
isCurrentRequest(s, text, cursorPosition) ==
    /\ s.currentRequestRef # Null
    /\ s.currentRequestRef[1].text = text
    /\ s.currentRequestRef[1].cursorPosition = cursorPosition

\* the completion taken as it came, untrimmed
completionTextNoTrim(response) ==
    IF response.kind = "ok" /\ response.completion # <<>>
    THEN Some(response.completion)
    ELSE Null

\* line 211: response.completion?.trim() || null
completionText(response) ==
    IF response.kind = "ok" /\ trim(response.completion) # <<>>
    THEN Some(trim(response.completion))
    ELSE Null

\* lines 211-224
applyResponse(s, text, cursorPosition, response) ==
    LET ct == completionText(response)
        s1 == [s EXCEPT !.completion = ct,
                        !.stats.apiCalls = @ + 1,
                        !.stats.tokensUsed =
                            @ + (IF ct = Null THEN 0 ELSE splitLength(ct[1]))]
    IN  IF s.enableCache /\ truthy(ct)
        THEN [s1 EXCEPT !.cache = set(s.cache, s.now, text, cursorPosition, ct[1])]
        ELSE s1

\* `err instanceof Error`
instanceofError(err) == err \in {"Error", "AbortError", "TypeError"}

\* a catch that surfaces every Error, AbortError included
catchAll(s, err) ==
    IF instanceofError(err)
    THEN [s EXCEPT !.error = err, !.completion = Null]
    ELSE s

\* lines 226-230
catch(s, err) ==
    IF instanceofError(err) /\ err # "AbortError"
    THEN [s EXCEPT !.error = err, !.completion = Null]
    ELSE s

\* lines 231-233
finally(s) == [s EXCEPT !.isLoading = FALSE]

\* Reading response.completion of no object, or calling trim on a non-string, throws.
throwsTypeError(response) == response.kind \in {"none", "nonstring"}

\* lines 206-233: the continuation of the await when the engine resolves
resolved(s, text, cursorPosition, response) ==
    finally(IF isCurrentRequest(s, text, cursorPosition)
            THEN IF throwsTypeError(response)
                 THEN catch(s, "TypeError")
                 ELSE applyResponse(s, text, cursorPosition, response)
            ELSE s)

\* lines 226-233: the continuation of the await when the engine rejects
\* rejected without the finally block
rejectedNoFinally(s, err) == catch(s, err)

\* rejected with a retry: a failed request is issued again at once
rejectedRetry(s, err) ==
    IF instanceofError(err) /\ err # "AbortError" /\ s.currentRequestRef # Null
       /\ s.nextId <= MaxRequests
    THEN dispatch(finally(catch(s, err)),
                  s.currentRequestRef[1].text, s.currentRequestRef[1].cursorPosition)
    ELSE finally(catch(s, err))

rejected(s, err) == finally(catch(s, err))

---------------------------------------------------------------------------
(* useSmartTrigger, lines 315-419 *)

Abs(n) == IF n < 0 THEN -n ELSE n

\* a clearPauseTimer that drops the handle and leaves the timeout scheduled
clearPauseTimerHandleOnly(s) ==
    IF s.pauseTimer # Null
    THEN [s EXCEPT !.pauseTimer = Null]
    ELSE s

\* lines 333-338
clearPauseTimer(s) ==
    IF s.pauseTimer # Null
    THEN [s EXCEPT !.timers = @ \ {s.pauseTimer[1]}, !.pauseTimer = Null,
                   !.ev.cleared = @ \/ s.pauseTimer[1] \in s.timers]
    ELSE s

\* onTrigger is requestCompletion (line 238)
onTrigger(s, text, cursorPosition) ==
    requestCompletion(
        [s EXCEPT !.ev.fired = TRUE],
        text, cursorPosition)

\* a guard that looks at the cooldown only
suppressedCooldownOnly(s, text) ==
    LET significantChange == Abs(Len(text) - Len(s.lastText)) > SignificantDelta
        cooldownPassed == s.now - s.lastTriggerTime > Cooldown
    IN  ~significantChange /\ ~cooldownPassed

\* a guard whose cooldown ends one tick early (>= for >)
suppressedInclusive(s, text) ==
    LET textChanged == text # s.lastText
        significantChange == Abs(Len(text) - Len(s.lastText)) > SignificantDelta
        cooldownPassed == s.now - s.lastTriggerTime >= Cooldown
    IN  ~textChanged \/ (~significantChange /\ ~cooldownPassed)

\* lines 371-378: the cooldown / no-op guard
suppressed(s, text) ==
    LET textChanged == text # s.lastText
        significantChange == Abs(Len(text) - Len(s.lastText)) > SignificantDelta
        cooldownPassed == s.now - s.lastTriggerTime > Cooldown
    IN  ~textChanged \/ (~significantChange /\ ~cooldownPassed)

\* an immediate trigger that knows the full stop only
sentenceEndPeriodOnly(s, lastChar) ==
    /\ lastChar = "."
    /\ (s.lastText = <<>> \/ lastChar # s.lastText[Len(s.lastText)])

\* line 381
sentenceEnd(s, lastChar) ==
    /\ lastChar \in SentenceEnd
    /\ (s.lastText = <<>> \/ lastChar # s.lastText[Len(s.lastText)])

\* a timeout set for the tolerance-reduced pause (pauseThreshold - 50)
armPauseTimerShort(s, text, cursorPosition, isAtBreakpoint) ==
    LET t == [due |-> s.now + PauseThreshold - PauseSlack, text |-> text,
              cursorPosition |-> cursorPosition, isAtBreakpoint |-> isAtBreakpoint]
    IN  [s EXCEPT !.timers = @ \cup {t}, !.pauseTimer = Some(t)]

\* lines 389-403: setTimeout(..., pauseThreshold)
armPauseTimer(s, text, cursorPosition, isAtBreakpoint) ==
    LET t == [due |-> s.now + PauseThreshold, text |-> text,
              cursorPosition |-> cursorPosition, isAtBreakpoint |-> isAtBreakpoint]
    IN  [s EXCEPT !.timers = @ \cup {t}, !.pauseTimer = Some(t)]

\* a checkTrigger without the minimum-length check
checkTriggerNoMinChars(s, text, cursorPosition) ==
    LET s1 == [clearPauseTimer(s) EXCEPT !.lastKeyTime = s.now]
        textBeforeCursor == substring(text, 0, cursorPosition)
        lastChar == textBeforeCursor[Len(textBeforeCursor)]
        isAtBreakpoint == lastChar \in Breakpoints
    IN  IF Len(textBeforeCursor) = 0 THEN s1
        ELSE IF suppressed(s1, text) THEN s1
        ELSE IF sentenceEnd(s1, lastChar)
        THEN onTrigger([s1 EXCEPT !.lastText = text, !.lastTriggerTime = s.now],
                       text, cursorPosition)
        ELSE armPauseTimer(s1, text, cursorPosition, isAtBreakpoint)

\* lines 344-404
\* checkTrigger recording the observed text also when it only arms the delay
checkTriggerRecordsOnArm(s, text, cursorPosition) ==
    LET s1 == [clearPauseTimer(s) EXCEPT !.lastKeyTime = s.now]
        textBeforeCursor == substring(text, 0, cursorPosition)
        lastChar == textBeforeCursor[Len(textBeforeCursor)]
        isAtBreakpoint == lastChar \in Breakpoints
    IN  IF Len(text) < MinChars THEN s1
        ELSE IF Len(textBeforeCursor) = 0 THEN s1
        ELSE IF suppressed(s1, text) THEN s1
        ELSE IF sentenceEnd(s1, lastChar)
        THEN onTrigger([s1 EXCEPT !.lastText = text, !.lastTriggerTime = s.now],
                       text, cursorPosition)
        ELSE armPauseTimer([s1 EXCEPT !.lastText = text], text, cursorPosition,
                           isAtBreakpoint)

checkTrigger(s, text, cursorPosition) ==
    LET s1 == [clearPauseTimer(s) EXCEPT !.lastKeyTime = s.now]
        textBeforeCursor == substring(text, 0, cursorPosition)
        lastChar == textBeforeCursor[Len(textBeforeCursor)]
        isAtBreakpoint == lastChar \in Breakpoints
    IN  IF Len(text) < MinChars THEN s1
        ELSE IF Len(textBeforeCursor) = 0 THEN s1
        ELSE IF suppressed(s1, text) THEN s1
        ELSE IF sentenceEnd(s1, lastChar)
        THEN onTrigger([s1 EXCEPT !.lastText = text, !.lastTriggerTime = s.now],
                       text, cursorPosition)
        ELSE armPauseTimer(s1, text, cursorPosition, isAtBreakpoint)

\* a callback that fires wherever the cursor stands
pauseTimerCallbackAnywhere(s, t) ==
    LET timeSinceLastKey == s.now - s.lastKeyTime
    IN  IF timeSinceLastKey >= PauseThreshold - PauseSlack
        THEN onTrigger([s EXCEPT !.lastText = t.text, !.lastTriggerTime = s.now],
                       t.text, t.cursorPosition)
        ELSE s

\* lines 389-403: the timeout's callback, for timer t
pauseTimerCallback(s, t) ==
    LET timeSinceLastKey == s.now - s.lastKeyTime
    IN  IF timeSinceLastKey >= PauseThreshold - PauseSlack
        THEN IF s.triggerAtBreakpoints /\ ~t.isAtBreakpoint
             THEN s
             ELSE onTrigger([s EXCEPT !.lastText = t.text, !.lastTriggerTime = s.now],
                            t.text, t.cursorPosition)
        ELSE s

\* a reset that replaces the state and leaves the timeout scheduled
resetNoClear(s) ==
    [s EXCEPT !.lastKeyTime = 0, !.lastTriggerTime = 0, !.lastText = <<>>,
              !.pauseTimer = Null]

\* a reset that forgets the last observed text
resetKeepText(s) ==
    [clearPauseTimer(s) EXCEPT !.lastKeyTime = 0, !.lastTriggerTime = 0,
                               !.pauseTimer = Null]

\* lines 408-416
reset(s) ==
    [clearPauseTimer(s) EXCEPT !.lastKeyTime = 0, !.lastTriggerTime = 0,
                               !.lastText = <<>>, !.pauseTimer = Null]

---------------------------------------------------------------------------
(* useOptimizedAutocomplete: the handlers the rendering layer calls *)

\* lines 248-254
\* diverged without the comparison: any displayed suggestion is dropped
divergedAlways(s, text, cursorPosition) == truthy(s.completion)

diverged(s, text, cursorPosition) ==
    LET textAfterCursor == substring(text, cursorPosition, Len(text))
        first == substring(textAfterCursor, 0, 1)   \* charAt(0) || ''
    IN  truthy(s.completion) /\ ~startsWith(s.completion[1], first)

\* lines 245-259
handleTextChange(s, text, cursorPosition) ==
    checkTrigger(IF diverged(s, text, cursorPosition)
                 THEN [s EXCEPT !.completion = Null]
                 ELSE s,
                 text, cursorPosition)

\* an accept that returns the suggestion and leaves it displayed
acceptCompletionKeep(s) ==
    [s EXCEPT !.ev.ret = IF truthy(s.completion) THEN s.completion[1] ELSE <<>>]

\* lines 261-265
acceptCompletion(s) ==
    [s EXCEPT !.ev.ret = IF truthy(s.completion) THEN s.completion[1] ELSE <<>>,
              !.completion = Null]

\* lines 267-273
dismissCompletion(s) ==
    reset(abortCurrent([s EXCEPT !.completion = Null]))

---------------------------------------------------------------------------
(* The state machine *)

InitHook ==
    /\ completion = Null
    /\ isLoading = FALSE
    /\ error = "null"
    /\ stats = [apiCalls |-> 0, cacheHits |-> 0, tokensUsed |-> 0]
    /\ abortControllerRef = 0
    /\ currentRequestRef = Null
    /\ inflight = {}
    /\ nextId = 1
    /\ cache = <<>>
    /\ lastKeyTime = 0
    /\ lastTriggerTime = 0
    /\ lastText = <<>>
    /\ pauseTimer = Null
    /\ timers = {}
    /\ now = T0
    /\ enabled \in BOOLEAN
    /\ enableCache \in BOOLEAN
    /\ triggerAtBreakpoints \in BOOLEAN
    /\ ev = Event("init")

\* a hook used on its own, with no component of this library around it
NoComponent == [kind |-> "none", value |-> <<>>, cursorPosition |-> 0]

\* no AutocompleteProvider and no LocalProvider taking part
NoContext == [provider |-> Null, isLoading |-> FALSE, error |-> "null", pending |-> {},
              nextCall |-> 1]

NoLocal == [webllm |-> FALSE, engine |-> Null, isInitializing |-> FALSE,
            initPromise |-> "null", created |-> 0, calls |-> {}, nextCall |-> 1]

Init == InitHook /\ component = NoComponent /\ context = NoContext /\ local = NoLocal

\* The textarea reports an edit: handleChange calls handleTextChange.
HandleTextChangeWith(o) ==
    \E s \in {handleTextChange(Begin("handleTextChange"), o[1], o[2])} :
        WithinBounds(s) /\ Commit(s)

HandleTextChange == \E o \in Observations : HandleTextChangeWith(o)

\* A scheduled timeout comes due and the runtime runs its callback.
PauseTimerFires ==
    \E t \in timers :
        /\ now >= t.due
        /\ LET s == pauseTimerCallback([Begin("pauseTimer") EXCEPT !.timers = @ \ {t}], t)
           IN  WithinBounds(s) /\ Commit(s)

\* The engine's promise for call r resolves with response.
EngineResolvesWith(r, response) ==
    Commit(resolved([Begin("resolve") EXCEPT !.inflight = @ \ {r}],
                    r.text, r.cursorPosition, response))

EngineResolves ==
    \E r \in inflight, response \in Responses : EngineResolvesWith(r, response)

\* The engine's promise for call r rejects with err.
EngineRejectsWith(r, err) ==
    Commit(rejected([Begin("reject") EXCEPT !.inflight = @ \ {r}, !.ev.err = err], err))

EngineRejects ==
    \E r \in inflight, err \in Rejections : EngineRejectsWith(r, err)

\* The rendering layer calls acceptCompletion.
AcceptCompletion ==
    \E s \in {acceptCompletion(Begin("acceptCompletion"))} : Commit(s)

\* The rendering layer calls dismissCompletion.
DismissCompletion ==
    \E s \in {dismissCompletion(Begin("dismissCompletion"))} : Commit(s)

\* Time passes.  A timeout that is due runs before the clock moves on.
Tick ==
    /\ now < MaxTime
    /\ \A t \in timers : now < t.due
    /\ Commit([Begin("tick") EXCEPT !.now = @ + 1])

Next ==
    \/ HandleTextChange
    \/ PauseTimerFires
    \/ EngineResolves
    \/ EngineRejects
    \/ AcceptCompletion
    \/ DismissCompletion
    \/ Tick

Spec == Init /\ [][Next]_vars

---------------------------------------------------------------------------
(* useSmartTrigger on its own: checkTrigger and reset called in any order, with a
   callback that has no effect of its own (requestCompletion without a provider). *)

TriggerHorizon == 4     \* clock units a run of the trigger engine lasts

\* The observations checkTrigger is called with.
TriggerObservations ==
    { <<<<"a">>, 1>>,
      <<<<".">>, 1>>,
      <<<<"a", "b">>, 0>>,
      <<<<"a", "b">>, 2>>,
      <<<<"a", "b", " ">>, 3>>,
      <<<<"a", "b", ".">>, 3>>,
      <<<<"a", "b", "!">>, 3>>,
      <<<<"a", "b", " ", "c", "d", "e", "f">>, 3>>,
      <<<<"a", "b", " ", "c", "d", "e", "f">>, 7>> }

InitTrigger == Init /\ ~enabled /\ ~enableCache

\* a step of the trigger engine's run: the report keeps the latest observation
TriggerBegin(op) == [Cur EXCEPT !.ev = [Event(op) EXCEPT !.last = ev.last]]

CheckTrigger ==
    \E o \in TriggerObservations :
        \E s \in {checkTrigger([TriggerBegin("checkTrigger") EXCEPT
                                    !.ev.obs = Some([text |-> o[1],
                                                     cursorPosition |-> o[2]]),
                                    !.ev.prev = ev.last],
                                o[1], o[2])} :
            Commit([s EXCEPT !.ev.last =
                        Some([text |-> o[1], cursorPosition |-> o[2],
                              fired |-> s.ev.fired])])

\* The armed timeout comes due and the runtime runs its callback.
TriggerTimerFires ==
    \E t \in timers :
        /\ now >= t.due
        /\ LET s == pauseTimerCallback(
                        [TriggerBegin("pauseTimer") EXCEPT !.timers = @ \ {t}], t)
           IN  Commit(IF s.ev.fired /\ s.ev.last # Null
                      THEN [s EXCEPT !.ev.last = Some([@[1] EXCEPT !.fired = TRUE])]
                      ELSE s)

Reset ==
    \E s \in {reset(TriggerBegin("reset"))} : Commit([s EXCEPT !.ev.last = Null])

TriggerTick ==
    /\ now < T0 + TriggerHorizon
    /\ \A t \in timers : now < t.due
    /\ Commit([TriggerBegin("tick") EXCEPT !.now = @ + 1])

NextTrigger ==
    \/ CheckTrigger
    \/ TriggerTimerFires
    \/ Reset
    \/ TriggerTick

SpecTrigger == InitTrigger /\ [][NextTrigger]_vars

---------------------------------------------------------------------------
(* CompletionCache on its own: set, get, getByPrefix and clear called in any order
   while time passes. *)

CacheHorizon == 2       \* clock units a run of the cache lasts

\* The (text, cursorPosition) pairs the cache is called with; their keys are
\* "", "a" and "ab".
CacheObservations ==
    { <<<<" ", "a">>, 1>>,
      <<<<"a">>, 1>>,
      <<<<"a", " ">>, 2>>,
      <<<<"a", "b">>, 2>> }

\* The completions stored.
CacheCompletions == { <<"b">>, <<"b", "c">> }

InitCache == Init /\ ~enabled /\ ~enableCache /\ ~triggerAtBreakpoints

\* a step of the cache's run: the report keeps the last set still standing
CacheBegin(op) == [Cur EXCEPT !.ev = [Event(op) EXCEPT !.lastSet = ev.lastSet]]

\* the report of a call with arguments o
called(op, o) ==
    [CacheBegin(op) EXCEPT !.ev.obs = Some([text |-> o[1], cursorPosition |-> o[2]])]

CacheSet ==
    \E o \in CacheObservations, c \in CacheCompletions :
        \E s \in {called("set", o)} :
            Commit([s EXCEPT !.cache = set(cache, now, o[1], o[2], c),
                             !.ev.lastSet =
                                 Some([text |-> o[1], cursorPosition |-> o[2],
                                       completion |-> c, at |-> now])])

CacheGet ==
    \E o \in CacheObservations :
        \E s \in {called("get", o)} :
            Commit([s EXCEPT !.cache = get(cache, now, o[1], o[2]).cache,
                             !.ev.cached = get(cache, now, o[1], o[2]).value])

CacheGetByPrefix ==
    \E o \in CacheObservations :
        \E s \in {called("getByPrefix", o)} :
            Commit([s EXCEPT !.cache = getByPrefix(cache, now, o[1], o[2]).cache,
                             !.ev.cached = getByPrefix(cache, now, o[1], o[2]).value])

CacheClear ==
    \E s \in {CacheBegin("clear")} :
        Commit([s EXCEPT !.cache = clear(cache), !.ev.lastSet = Null])

CacheTick ==
    /\ now < T0 + CacheHorizon
    /\ Commit([CacheBegin("tick") EXCEPT !.now = @ + 1])

NextCache ==
    \/ CacheSet
    \/ CacheGet
    \/ CacheGetByPrefix
    \/ CacheClear
    \/ CacheTick

SpecCache == InitCache /\ [][NextCache]_vars

---------------------------------------------------------------------------
(* Properties of the request orchestrator *)

\* the observation engine call r was made for
obsOf(r) == [text |-> r.text, cursorPosition |-> r.cursorPosition]

\* the most recently dispatched engine call is r (abortControllerRef holds its controller)
isLatest(r) == r.id = abortControllerRef

\* C1: a response arriving for a request that a request for a different observation
\* has superseded (and that is still awaited) leaves suggestion, isPending and
\* lastError exactly as they were; the response of that newer request then sets
\* the suggestion to its completion.
C1_StaleResponseLeavesSession ==
    [][\A r \in inflight : \A response \in Responses :
        (EngineResolvesWith(r, response) /\ response.kind = "ok")
        => /\ ( /\ ~isLatest(r)
                /\ currentRequestRef # Some(obsOf(r))
                /\ \E b \in inflight : isLatest(b) )
              => UNCHANGED <<completion, isLoading, error>>
           /\ isLatest(r)
              => completion' = (IF trim(response.completion) = <<>> THEN Null
                                ELSE Some(trim(response.completion)))]_vars

\* C2: a response is applied (it counts as an API call and its completion becomes
\* the suggestion) only if it answers the most recently dispatched request.
C2_OnlyLatestRequestApplied ==
    [][\A r \in inflight : \A response \in Responses :
        (EngineResolvesWith(r, response) /\ stats'.apiCalls # stats.apiCalls
                                         /\ completion' # Null)
        => isLatest(r)]_vars

\* C3: among the engine calls in flight at most one has a controller that has not
\* been aborted.
C3_AtMostOneUncancelled ==
    Cardinality({r \in inflight : ~r.aborted}) <= 1

C3_Witness ==
    \E a, b \in inflight : a.aborted /\ ~b.aborted /\ a.id < b.id

\* C4 (as stated): whenever the trigger fires with caching enabled and getByPrefix
\* returns a string, the suggestion is that string, cacheHits grows by exactly one,
\* no engine call is made and isPending is not raised.
C4_Original ==
    [][(ev'.lookup /\ ev'.cached # Null)
        => /\ completion' = ev'.cached
           /\ stats'.cacheHits = stats.cacheHits + 1
           /\ ev'.dispatched = 0
           /\ inflight' = inflight
           /\ isLoading' = isLoading]_vars

\* C4 (amended): whenever the trigger fires with caching enabled and getByPrefix
\* returns a non-empty completion, the suggestion is that completion, cacheHits grows
\* by exactly one, no engine call is made and isPending is not raised.
C4_CacheFirst ==
    [][(ev'.lookup /\ truthy(ev'.cached))
        => /\ completion' = ev'.cached
           /\ stats'.cacheHits = stats.cacheHits + 1
           /\ ev'.dispatched = 0
           /\ inflight' = inflight
           /\ isLoading' = isLoading]_vars

C4_Witness ==
    /\ ev.fired
    /\ ev.lookup
    /\ truthy(ev.cached)
    /\ completion = ev.cached
    /\ stats.cacheHits = 1
    /\ isLoading

\* C5: when the response of the current request arrives, the suggestion becomes the
\* trimmed completion (absent if that is empty), isPending is cleared, and the cache
\* then holds the trimmed completion under the request's own (text, cursorPosition)
\* if caching is enabled and it is non-empty; otherwise the cache is left as it was.
C5_CurrentResponseApplied ==
    [][\A r \in inflight : \A response \in Responses :
        (EngineResolvesWith(r, response) /\ isLatest(r) /\ response.kind = "ok")
        => LET ct == trim(response.completion)
               key == generateKey(r.text, r.cursorPosition)
           IN  /\ completion' = (IF ct = <<>> THEN Null ELSE Some(ct))
               /\ ~isLoading'
               /\ IF enableCache /\ ct # <<>>
                  THEN /\ indexOf(cache', key) # 0
                       /\ cache'[indexOf(cache', key)] =
                              [key |-> key, completion |-> ct, timestamp |-> now]
                  ELSE cache' = cache]_vars

\* the only request ever made, for ("ab!c", 3), has just resolved with " d"
C5_Witness ==
    /\ ev.op = "resolve"
    /\ nextId = 2
    /\ inflight = {}
    /\ stats.apiCalls = 1
    /\ currentRequestRef = Some([text |-> <<"a", "b", "!", "c">>, cursorPosition |-> 3])
    /\ completion = Some(<<"d">>)
    /\ ~isLoading
    /\ cache = <<[key |-> <<"a", "b", "!">>, completion |-> <<"d">>, timestamp |-> now]>>

\* C6: after the engine rejects with anything but a cancellation, isPending is
\* false, the suggestion is absent and lastError is populated.
C6_FailureGoesIdleWithError ==
    (ev.op = "reject" /\ ev.err # "AbortError")
        => (~isLoading /\ completion = Null /\ error # "null")

\* C7: a rejection named AbortError changes neither lastError nor the suggestion.
C7_AbortSuppressed ==
    [][(ev'.op = "reject" /\ ev'.err = "AbortError")
        => UNCHANGED <<error, completion>>]_vars

C7_Witness ==
    /\ ev.op = "reject"
    /\ ev.err = "AbortError"
    /\ completion # Null
    /\ error = "null"

C9_DismissDisarms ==
    ev.op = "dismissCompletion" => (timers = {} /\ pauseTimer = Null)

C9_Witness ==
    /\ ev.op = "dismissCompletion"
    /\ ev.cleared
    /\ timers = {}

\* C10: a response for the request that was in flight at a dismissal, arriving with
\* no request dispatched since and no suggestion displayed, leaves the suggestion
\* absent.
C10_DismissedResponseDiscarded ==
    [][\A r \in inflight : \A response \in Responses :
        (EngineResolvesWith(r, response) /\ r.aborted /\ isLatest(r) /\ completion = Null)
        => completion' = Null]_vars

---------------------------------------------------------------------------
(* Properties of the trigger engine (checked under SpecTrigger) *)

\* the step just taken was checkTrigger
checked == ev.op = "checkTrigger"

\* the text and the cursor position checkTrigger was just called with
obsText == ev.obs[1].text
obsCursor == ev.obs[1].cursorPosition

\* the last character of s, or the empty string
lastCharOf(s) == IF s = <<>> THEN "" ELSE s[Len(s)]

\* the call just made neither fired nor left a delay armed
noFireNoDelay == ~ev.fired /\ pauseTimer = Null /\ timers = {}

\* C11: a checkTrigger call with a text shorter than minChars, in whatever trigger
\* state, neither fires the callback nor arms a delay.
C11_ShortTextNeverTriggers ==
    (checked /\ Len(obsText) < MinChars) => noFireNoDelay

\* a one-character sentence end observed while a delay was armed and a text had fired
C11_Witness ==
    /\ checked
    /\ obsText = <<".">>
    /\ ev.cleared
    /\ lastText # <<>>
    /\ noFireNoDelay

\* the text before the cursor, as checkTrigger takes it (line 361)
beforeCursor(text, cursorPosition) == substring(text, 0, cursorPosition)

\* the observation at hand ends, before the cursor, in a sentence end that is not the
\* trailing character of the last observed text
newSentenceEnd(text, cursorPosition) ==
    /\ Len(text) >= MinChars
    /\ cursorPosition > 0
    /\ lastCharOf(beforeCursor(text, cursorPosition)) \in SentenceEnd
    /\ lastCharOf(beforeCursor(text, cursorPosition)) # lastCharOf(lastText)

\* the observation at hand passes the no-op / cooldown guard in the current state
passesGuard(text) ==
    /\ text # lastText
    /\ \/ Abs(Len(text) - Len(lastText)) > SignificantDelta
       \/ now - lastTriggerTime > Cooldown

\* C12 (as stated): in a text of at least minChars characters, a sentence-ending
\* character before the cursor that is not the trailing character of the last
\* observed text makes checkTrigger fire in that very call.
C12_Original ==
    [][(checked' /\ newSentenceEnd(obsText', obsCursor')) => ev'.fired]_vars

\* C12 (amended): such an observation fires in that very call, records the text and
\* the time and leaves no delay armed, provided it passes the no-op / cooldown guard:
\* its text differs from the last observed text, and its length differs from that
\* text's by more than 3 or more than cooldown has elapsed since the last trigger.
C12_SentenceEndFiresNow ==
    [][(checked' /\ newSentenceEnd(obsText', obsCursor') /\ passesGuard(obsText'))
        => /\ ev'.fired
           /\ lastText' = obsText'
           /\ lastTriggerTime' = now
           /\ pauseTimer' = Null
           /\ timers' = {}]_vars

\* "ab!" fired at once, after an earlier trigger and its cooldown, cancelling a delay
C12_Witness ==
    /\ checked
    /\ ev.fired
    /\ ev.cleared
    /\ obsText = <<"a", "b", "!">>
    /\ lastText = obsText
    /\ lastTriggerTime = now
    /\ now > T0 + Cooldown

\* the call just made repeats the text of the observation before it
repeated == checked /\ ev.prev # Null /\ ev.prev[1].text = obsText

\* C13 (as stated): the second of two consecutive observations with the same text is
\* suppressed, neither firing nor arming a delay, whatever the first one did.
C13_Original ==
    repeated => noFireNoDelay

\* C13 (amended): the second of two consecutive observations with the same text is
\* suppressed whenever the first one has fired (at once or when its delay elapsed)
\* and the engine was not reset in between.
C13_RepeatOfFiredTextSuppressed ==
    (repeated /\ ev.prev[1].fired) => noFireNoDelay

\* "ab " armed a delay, fired when it elapsed, and was observed again after the
\* cooldown
C13_Witness ==
    /\ repeated
    /\ ev.prev[1].fired
    /\ obsText = <<"a", "b", " ">>
    /\ now - lastTriggerTime > Cooldown
    /\ noFireNoDelay

\* C14: an observation is suppressed, neither firing nor arming a delay, whenever
\* its text equals the last observed text, or its length differs from that text's
\* by at most 3 while no more than cooldown has elapsed since the last trigger.
C14_GuardSuppresses ==
    [][(checked' /\ ( \/ obsText' = lastText
                      \/ /\ Abs(Len(obsText') - Len(lastText)) <= SignificantDelta
                         /\ now - lastTriggerTime <= Cooldown ))
        => noFireNoDelay']_vars

\* a small edit of the fired text, exactly cooldown after the trigger, cancelled the
\* delay that was armed and armed none
C14_Witness ==
    /\ checked
    /\ obsText # lastText
    /\ lastText # <<>>
    /\ Abs(Len(obsText) - Len(lastText)) <= SignificantDelta
    /\ now - lastTriggerTime = Cooldown
    /\ ev.cleared
    /\ noFireNoDelay

\* the text before the cursor of the observation that armed timer t ends in a
\* breakpoint: whitespace or one of . , ! ? ; :
endsInBreakpoint(t) ==
    lastCharOf(beforeCursor(t.text, t.cursorPosition)) \in Breakpoints

\* the step just taken was the armed delay elapsing
elapsed == ev.op = "pauseTimer"

\* C15: when the armed delay elapses with no newer observation: if
\* triggerAtBreakpoints is set and the text before the cursor of the arming
\* observation does not end in a breakpoint, nothing fires, the trigger state is
\* unchanged and no delay is armed; otherwise the trigger fires for that
\* observation, lastText and lastTriggerTime are updated, and with no delay left
\* armed it cannot fire a second time.
C15_DelayElapses ==
    [][\A t \in timers :
        elapsed'
        => IF triggerAtBreakpoints /\ ~endsInBreakpoint(t)
           THEN /\ ~ev'.fired
                /\ UNCHANGED <<lastKeyTime, lastTriggerTime, lastText, pauseTimer>>
                /\ timers' = {}
           ELSE /\ ev'.fired
                /\ lastText' = t.text
                /\ lastTriggerTime' = now
                /\ UNCHANGED <<lastKeyTime, pauseTimer>>
                /\ timers' = {}]_vars

\* the delay of "ab " fired at its breakpoint; the delay of "ab cdef", armed next,
\* elapsed at a non-breakpoint and left everything as it was
C15_Witness ==
    /\ elapsed
    /\ triggerAtBreakpoints
    /\ ~ev.fired
    /\ lastText = <<"a", "b", " ">>
    /\ pauseTimer # Null
    /\ pauseTimer[1].text = <<"a", "b", " ", "c", "d", "e", "f">>
    /\ pauseTimer[1].cursorPosition = 7
    /\ timers = {}

\* C16: at most one delay is armed at any time; it is the one the trigger state
\* holds the handle of, and it belongs to the latest observation, so an observation
\* that was superseded before its delay elapsed can no longer fire.
C16_OneTimerOfLatestObservation ==
    /\ Cardinality(timers) <= 1
    /\ \A t \in timers :
        /\ pauseTimer = Some(t)
        /\ ev.last # Null
        /\ t.text = ev.last[1].text
        /\ t.cursorPosition = ev.last[1].cursorPosition

\* an observation has just replaced the delay of a different one by its own
C16_Witness ==
    /\ checked
    /\ ev.cleared
    /\ ev.prev # Null
    /\ ev.prev[1].text # obsText
    /\ ~ev.prev[1].fired
    /\ pauseTimer # Null
    /\ timers = {pauseTimer[1]}
    /\ pauseTimer[1].text = obsText

\* text is the armed observation's text with one breakpoint character appended, the
\* cursor behind it
appendsBreakpoint(t, text, cursorPosition) ==
    /\ Len(text) = Len(t.text) + 1
    /\ SubSeq(text, 1, Len(t.text)) = t.text
    /\ text[Len(text)] \in Breakpoints
    /\ cursorPosition = Len(text)

\* a delay armed by an observation that does not end in a breakpoint is pending
pendingOffBreakpoint ==
    /\ pauseTimer # Null
    /\ pauseTimer[1] \in timers
    /\ now < pauseTimer[1].due
    /\ ~endsInBreakpoint(pauseTimer[1])

\* the delay now armed: the one of the call just made, a full pauseThreshold ahead
rearmed(due) ==
    /\ ~ev.fired
    /\ pauseTimer = Some([due |-> due, text |-> obsText, cursorPosition |-> obsCursor,
                          isAtBreakpoint |-> TRUE])
    /\ timers = {pauseTimer[1]}

\* a delay armed at a breakpoint fires, when it elapses, for its own observation and
\* leaves no delay behind
firesAtExpiry ==
    \A t \in timers :
        (elapsed' /\ endsInBreakpoint(t))
        => (ev'.fired /\ lastText' = t.text /\ timers' = {})

\* C17 (as stated): with triggerAtBreakpoints set, in any trigger state, when a delay
\* armed off a breakpoint is pending and the next observation appends a breakpoint
\* character, the delay is re-armed for that observation, and at its expiry the
\* trigger fires once, for that observation.
C17_Original ==
    [][/\ (checked' /\ triggerAtBreakpoints /\ pendingOffBreakpoint
              /\ appendsBreakpoint(pauseTimer[1], obsText', obsCursor'))
          => rearmed(now + PauseThreshold)'
       /\ firesAtExpiry]_vars

\* C17 (amended): the same, provided the second observation passes the no-op /
\* cooldown guard and the appended character is not a sentence end that fires at
\* once (a '.', '!' or '?' other than the trailing character of the last observed
\* text).
C17_BreakpointRearms ==
    [][/\ (checked' /\ triggerAtBreakpoints /\ pendingOffBreakpoint
              /\ appendsBreakpoint(pauseTimer[1], obsText', obsCursor')
              /\ passesGuard(obsText')
              /\ ~newSentenceEnd(obsText', obsCursor'))
          => rearmed(now + PauseThreshold)'
       /\ firesAtExpiry]_vars

\* "ab" had armed a delay; "ab " has replaced it by its own, at a breakpoint
C17_Witness ==
    /\ checked
    /\ triggerAtBreakpoints
    /\ ev.cleared
    /\ ev.prev # Null
    /\ ev.prev[1] = [text |-> <<"a", "b">>, cursorPosition |-> 2, fired |-> FALSE]
    /\ obsText = <<"a", "b", " ">>
    /\ rearmed(now + PauseThreshold)

\* the trigger state of a freshly created engine (lines 326-331), nothing scheduled
freshEngine ==
    [Cur EXCEPT !.lastKeyTime = 0, !.lastTriggerTime = 0, !.lastText = <<>>,
                !.pauseTimer = Null, !.timers = {}]

\* the trigger state and the outcome of the step are those of state s
sameOutcome(s) ==
    /\ lastKeyTime' = s.lastKeyTime
    /\ lastTriggerTime' = s.lastTriggerTime
    /\ lastText' = s.lastText
    /\ pauseTimer' = s.pauseTimer
    /\ timers' = s.timers
    /\ ev'.fired = s.ev.fired

\* C18: reset cancels the pending delay and restores lastKeyTime, lastTriggerTime
\* and lastText to their initial values, so that no delay armed before it is left
\* to fire; and the next observation, whenever it comes, is evaluated as a freshly
\* created engine evaluates it.
C18_ResetRestoresFreshEngine ==
    [][/\ ev'.op = "reset"
          => /\ timers' = {} /\ pauseTimer' = Null
             /\ lastKeyTime' = 0 /\ lastTriggerTime' = 0 /\ lastText' = <<>>
       /\ (checked' /\ ev.last = Null)
          => sameOutcome(checkTrigger(freshEngine, obsText', obsCursor'))]_vars

\* a reset has cancelled the delay that was pending, after time had passed
C18_Witness ==
    /\ ev.op = "reset"
    /\ ev.cleared
    /\ now > T0
    /\ timers = {} /\ pauseTimer = Null
    /\ lastKeyTime = 0 /\ lastTriggerTime = 0 /\ lastText = <<>>

---------------------------------------------------------------------------
(* Properties of the completion cache (checked under SpecCache) *)

\* the step just taken was a get with the arguments of the last set still standing
\* (no set or clear since)
getOfLastSet ==
    /\ ev.op = "get"
    /\ ev.lastSet # Null
    /\ ev.obs[1].text = ev.lastSet[1].text
    /\ ev.obs[1].cursorPosition = ev.lastSet[1].cursorPosition

\* C19: a get with the (text, cursorPosition) of the preceding set returns exactly
\* the completion stored if no more than ttl has elapsed since the set, and absent
\* once more than ttl has elapsed.
C19_RoundTrip ==
    getOfLastSet
    => ev.cached = (IF now - ev.lastSet[1].at <= Ttl
                    THEN Some(ev.lastSet[1].completion)
                    ELSE Null)

\* "bc", stored over another entry exactly ttl ago, has just been read back
C19_Witness ==
    /\ getOfLastSet
    /\ now - ev.lastSet[1].at = Ttl
    /\ ev.lastSet[1].completion = <<"b", "c">>
    /\ ev.cached = Some(<<"b", "c">>)
    /\ Len(cache) = MaxSize

\* C20: right after any set the cache holds at most maxSize entries, whatever the
\* calls before it and whatever the texts, those whose key is empty included.
C20_CapacityAfterSet ==
    ev.op = "set" => Len(cache) <= MaxSize

\* the key of the call just made
obsKey == generateKey(obsText, obsCursor)

\* C21: a set on a full cache evicts exactly one entry, the one whose key was
\* inserted earliest, however recently any entry was read: afterwards the cache
\* holds at most maxSize entries, the earliest-inserted key is gone (unless it is
\* the key being set) and every other entry's key is still there.
C21_FifoEviction ==
    [][(ev'.op = "set" /\ Len(cache) >= MaxSize)
        => /\ Len(cache') <= MaxSize
           /\ cache[1].key # obsKey' => indexOf(cache', cache[1].key) = 0
           /\ \A j \in 2..Len(cache) : indexOf(cache', cache[j].key) # 0]_vars

\* an entry no older than ttl
live(e) == now - e.timestamp <= Ttl

isPrefix(p, k) == Len(p) <= Len(k) /\ \A i \in 1..Len(p) : p[i] = k[i]

\* what has been typed since the entry's key was cached
extraTyped(e) == SubSeq(obsKey, Len(e.key) + 1, Len(obsKey))

\* live entries whose key is a prefix of the key looked up and whose completion
\* starts with the extra text
qualifying ==
    {i \in 1..Len(cache) :
        /\ live(cache[i])
        /\ isPrefix(cache[i].key, obsKey)
        /\ isPrefix(extraTyped(cache[i]), cache[i].completion)}

\* the entry's completion with the extra text removed
remainder(e) == SubSeq(e.completion, Len(extraTyped(e)) + 1, Len(e.completion))

exactMiss == \A i \in 1..Len(cache) : cache[i].key = obsKey => ~live(cache[i])

\* C22: on an exact-key miss getByPrefix returns the completion of a live entry
\* whose key is a prefix of the current key and whose completion starts with the
\* extra text, with that extra text removed; it returns absent if no live entry
\* qualifies.  (The lookup removes nothing but an expired exact entry, so the
\* live entries after the call are those before it.)
C22_PrefixExtension ==
    (ev.op = "getByPrefix" /\ exactMiss)
    => IF qualifying = {} THEN ev.cached = Null
       ELSE \E i \in qualifying : ev.cached = Some(remainder(cache[i]))

\* "bc" cached under "a" has answered a lookup of "ab" with "c"
C22_Witness ==
    /\ ev.op = "getByPrefix"
    /\ exactMiss
    /\ obsKey = <<"a", "b">>
    /\ \E i \in qualifying : cache[i].key = <<"a">> /\ cache[i].completion = <<"b", "c">>
    /\ ev.cached = Some(<<"c">>)

\* what the live entry stored under the key looked up holds
fromExact == {cache[i].completion : i \in {j \in 1..Len(cache) : live(cache[j]) /\ cache[j].key = obsKey}}

\* what the qualifying entries hold beyond the extra text
fromPrefix == {remainder(cache[i]) : i \in qualifying}

\* C23: a completion returned by get or getByPrefix is taken from an entry no
\* older than ttl (the exact entry, or for getByPrefix a qualifying one), and a
\* get that finds its exact entry expired returns absent and removes that entry
\* alone.
C23_NeverOlderThanTtl ==
    [][/\ (ev'.op \in {"get", "getByPrefix"} /\ ev'.cached # Null)
          => \/ ev'.cached[1] \in fromExact'
             \/ ev'.op = "getByPrefix" /\ ev'.cached[1] \in fromPrefix'
       /\ \A i \in 1..Len(cache) :
            (ev'.op = "get" /\ cache[i].key = obsKey' /\ now - cache[i].timestamp > Ttl)
            => /\ ev'.cached = Null
               /\ cache' = mapDelete(cache, cache[i].key)
               /\ Len(cache') = Len(cache) - 1]_vars

\* a get has found the entry of the last set expired and removed it
C23_Witness ==
    /\ getOfLastSet
    /\ now - ev.lastSet[1].at > Ttl
    /\ ev.cached = Null
    /\ indexOf(cache, obsKey) = 0
    /\ cache # <<>>

\* the character right after the cursor, empty at the end of the text
charAfterCursor(o) == IF o[2] < Len(o[1]) THEN <<o[1][o[2] + 1]>> ELSE <<>>

\* the suggestion shown after the call is the one the cache delivered in this call
replacedFromCache == ev'.op = "handleTextChange" /\ truthy(ev'.cached) /\ completion' = ev'.cached

\* C24 as stated: on handleTextChange with a suggestion displayed and a character
\* right after the cursor, the suggestion is cleared if that character is not the
\* suggestion's first character and kept if it is.
C24_Original ==
    [][\A o \in Observations :
        (HandleTextChangeWith(o) /\ completion # Null /\ charAfterCursor(o) # <<>>)
        => IF charAfterCursor(o) = <<completion[1][1]>>
           THEN completion' = completion
           ELSE completion' = Null]_vars

\* C24 amended: the suggestion is cleared or kept as stated unless the same call
\* fires the trigger and the cache delivers a suggestion, which is then the one
\* displayed.
C24_Divergence ==
    [][\A o \in Observations :
        (HandleTextChangeWith(o) /\ completion # Null /\ charAfterCursor(o) # <<>>)
        => \/ replacedFromCache
           \/ IF charAfterCursor(o) = <<completion[1][1]>>
              THEN completion' = completion
              ELSE completion' = Null]_vars

\* "ab!c" with the cursor before "c" has fired a request past the cache while the
\* suggestion "cd" stays displayed
C24_Witness ==
    /\ ev.op = "handleTextChange"
    /\ ev.fired
    /\ lastText = <<"a", "b", "!", "c">>
    /\ ~truthy(ev.cached)
    /\ completion = Some(<<"c", "d">>)

\* C25: the session is in exactly one of IDLE, PENDING and SUGGESTED; in
\* particular isPending is never true while a suggestion is present.
C25_PendingExcludesSuggestion ==
    ~(isLoading /\ completion # Null)

\* Every engine call eventually settles: the promise of provider.complete is
\* resolved or rejected, and its continuation runs.
EngineSettles == EngineResolves \/ EngineRejects

\* the hook with its default options: enabled, cache on, breakpoints required
InitLive == Init /\ enabled /\ enableCache /\ triggerAtBreakpoints

SpecLive == InitLive /\ [][Next]_vars /\ WF_vars(EngineSettles)

\* C26: if every engine call eventually resolves or rejects, a session that is
\* pending eventually is not pending, whether the awaited response is applied,
\* stale, cancelled or a failure.
C26_PendingEventuallyLeft == isLoading ~> ~isLoading

\* the only request ever dispatched was rejected with something that is not an
\* Error: nothing is recorded and the session is no longer pending
C26_Witness ==
    /\ ev.op = "reject"
    /\ ev.err = "NonError"
    /\ nextId = 2
    /\ inflight = {}
    /\ error = "null"
    /\ ~isLoading

\* the engine calls started by the step
invoked == {r.id : r \in inflight'} \ {r.id : r \in inflight}

\* C27: the engine is invoked only by a step in which the trigger fired (at once
\* in handleTextChange, or in the delay's callback) and the cache gave nothing,
\* once per such step; no settlement of a request, failed, cancelled or
\* discarded, issues a request; and the step that dispatches leaves lastError
\* cleared.
C27_NoAutomaticRetry ==
    [][(invoked # {} \/ nextId' # nextId)
        => /\ ev'.op \in {"handleTextChange", "pauseTimer"}
           /\ ev'.fired
           /\ ~truthy(ev'.cached)
           /\ Cardinality(invoked) = 1
           /\ nextId' = nextId + 1
           /\ error' = "null"]_vars

\* the delay's callback fired, the cache was consulted and gave nothing, and the
\* second request of the session is in flight with lastError cleared
C27_Witness ==
    /\ ev.op = "pauseTimer"
    /\ ev.fired
    /\ ev.lookup
    /\ ev.cached = Null
    /\ ev.dispatched = 2
    /\ \E r \in inflight : r.id = 2 /\ ~r.aborted
    /\ error = "null"

\* a response that is no completion: no response object, or a completion field
\* that is missing or not a string
malformed(response) == response.kind \in {"none", "missing", "nonstring"}

\* C28: a malformed response to the current request is treated as an empty
\* completion: the suggestion becomes absent, isPending is cleared and no
\* lastError is recorded.
C28_MalformedIsEmpty ==
    [][\A r \in inflight, response \in Responses :
        (/\ malformed(response)
         /\ currentRequestRef = Some([text |-> r.text, cursorPosition |-> r.cursorPosition])
         /\ EngineResolvesWith(r, response))
        => /\ completion' = Null
           /\ ~isLoading'
           /\ error' = error]_vars

\* ---------------------------------------------------------------------------
\* useAutocomplete: the debounced hook.  It runs over the same variables:
\* pauseTimer holds debounce's timeoutId, timers the timeouts set and not yet
\* run or cleared, currentRequestRef the hook's lastRequestRef.  ev.last is the
\* latest requestCompletion call with the time it was made, ev.prev the call
\* before it.
\* ---------------------------------------------------------------------------

DebounceMs == 2
MinCharsForCompletion == 2
TriggerOnSentenceEnd == TRUE
DebounceHorizon == 4

DebounceObservations ==
    { <<<<"a">>, 1>>,
      <<<<"a", "b">>, 2>>,
      <<<<"a", " ", "b">>, 3>>,
      <<<<"a", "b", ".">>, 3>> }

DebounceResponses ==
    { [kind |-> "ok", completion |-> <<"c", "d">>],
      [kind |-> "ok", completion |-> <<>>],          \* empty string
      [kind |-> "none", completion |-> <<>>] }       \* no response object

lastWordLength(s) ==
    LET t == trim(s)
        ws == {i \in 1..Len(t) : t[i] \in Whitespace}
    IN  IF ws = {} THEN Len(t)
        ELSE Len(t) - (CHOOSE i \in ws : \A j \in ws : j <= i)

shouldTriggerCompletion(text, cursorPosition, minChars, triggerOnSentenceEnd) ==
    LET textBeforeCursor == substring(text, 0, cursorPosition)
        lastChar == textBeforeCursor[Len(textBeforeCursor)]
    IN  IF Len(text) < minChars THEN FALSE
        ELSE IF Len(textBeforeCursor) = 0 THEN FALSE
        ELSE IF triggerOnSentenceEnd /\ lastChar \in {".", "!", "?", ":", ";"} THEN TRUE
        ELSE IF lastChar = " " /\ Len(trim(textBeforeCursor)) >= minChars THEN TRUE
        ELSE IF Len(textBeforeCursor) >= minChars
             THEN lastWordLength(textBeforeCursor) >= 2
             ELSE FALSE

\* requestCompletionInternal up to its await
requestCompletionInternal(s, text, cursorPosition) ==
    IF ~s.enabled THEN s
    ELSE IF ~shouldTriggerCompletion(text, cursorPosition, MinCharsForCompletion,
                                     TriggerOnSentenceEnd)
    THEN s
    ELSE dispatch(s, text, cursorPosition)

\* requestCompletionInternal after its await has resolved
internalResolved(s, text, cursorPosition, response) ==
    finally(IF isCurrentRequest(s, text, cursorPosition)
            THEN IF response.kind = "none"
                 THEN catch(s, "TypeError")
                 ELSE [s EXCEPT !.completion =
                          IF response.completion # <<>>
                          THEN Some(response.completion) ELSE Null]
            ELSE s)

\* debounce's cancel
cancel(s) ==
    IF s.pauseTimer # Null
    THEN [s EXCEPT !.timers = @ \ {s.pauseTimer[1]}, !.pauseTimer = Null]
    ELSE s

\* debounce's debouncedFn without the clearTimeout of the previous timeout
debouncedFnNoClear(s, text, cursorPosition) ==
    LET t == [due |-> s.now + DebounceMs, text |-> text, cursorPosition |-> cursorPosition]
    IN  [s EXCEPT !.timers = @ \cup {t}, !.pauseTimer = Some(t)]

debouncedFn(s, text, cursorPosition) ==
    LET s1 == IF s.pauseTimer # Null
              THEN [s EXCEPT !.timers = @ \ {s.pauseTimer[1]}]
              ELSE s
        t == [due |-> s.now + DebounceMs, text |-> text, cursorPosition |-> cursorPosition]
    IN  [s1 EXCEPT !.timers = @ \cup {t}, !.pauseTimer = Some(t)]

\* the timeout's callback: func(...args), then timeoutId = null
debounceCallback(s, t) ==
    [requestCompletionInternal(s, t.text, t.cursorPosition) EXCEPT !.pauseTimer = Null]

basicAcceptCompletion(s) ==
    [s EXCEPT !.ev.ret = IF truthy(s.completion) THEN s.completion[1] ELSE <<>>,
              !.completion = Null]

basicDismissCompletion(s) == cancel(abortCurrent([s EXCEPT !.completion = Null]))

InitDebounce == Init /\ ~enableCache /\ ~triggerAtBreakpoints

DebounceBegin(op) ==
    [Cur EXCEPT !.ev = [Event(op) EXCEPT !.last = ev.last, !.prev = ev.prev]]

RequestCompletion ==
    \E o \in DebounceObservations :
        \E s \in {debouncedFn(DebounceBegin("requestCompletion"), o[1], o[2])} :
            Commit([s EXCEPT !.ev.prev = ev.last,
                             !.ev.last = Some([text |-> o[1], cursorPosition |-> o[2],
                                               at |-> now, fired |-> FALSE])])

DebounceTimerFires ==
    \E t \in timers :
        /\ now >= t.due
        /\ \E s \in {debounceCallback(
                        [DebounceBegin("debounceTimer") EXCEPT !.timers = @ \ {t},
                                                               !.ev.fired = TRUE], t)} :
              /\ WithinBounds(s)
              /\ Commit(IF s.ev.last # Null
                        THEN [s EXCEPT !.ev.last = Some([@[1] EXCEPT !.fired = TRUE])]
                        ELSE s)

InternalResolves ==
    \E r \in inflight, response \in DebounceResponses :
        Commit(internalResolved([DebounceBegin("resolve") EXCEPT !.inflight = @ \ {r}],
                                r.text, r.cursorPosition, response))

InternalRejects ==
    \E r \in inflight, err \in Rejections :
        Commit(rejected([DebounceBegin("reject") EXCEPT !.inflight = @ \ {r},
                                                        !.ev.err = err], err))

BasicAcceptCompletion ==
    \E s \in {basicAcceptCompletion(DebounceBegin("acceptCompletion"))} : Commit(s)

BasicDismissCompletion ==
    \E s \in {basicDismissCompletion(DebounceBegin("dismissCompletion"))} : Commit(s)

DebounceTick ==
    /\ now < T0 + DebounceHorizon
    /\ \A t \in timers : now < t.due
    /\ Commit([DebounceBegin("tick") EXCEPT !.now = @ + 1])

NextDebounce ==
    \/ RequestCompletion
    \/ DebounceTimerFires
    \/ InternalResolves
    \/ InternalRejects
    \/ BasicAcceptCompletion
    \/ BasicDismissCompletion
    \/ DebounceTick

SpecDebounce == InitDebounce /\ [][NextDebounce]_vars

\* C29: in a burst of requestCompletion calls, the engine is asked only by the
\* timeout of the last call, debounceMs after that call, with that call's
\* (text, cursorPosition), and once; earlier calls of the burst never reach the
\* engine.
C29_DebouncedOnce ==
    [][invoked # {}
        => /\ ev'.op = "debounceTimer"
           /\ ev.last # Null
           /\ ~ev.last[1].fired
           /\ now = ev.last[1].at + DebounceMs
           /\ Cardinality(invoked) = 1
           /\ \A r \in inflight' :
                r.id \in invoked => /\ r.text = ev.last[1].text
                                    /\ r.cursorPosition = ev.last[1].cursorPosition]_vars

\* "ab" was called one unit after "a b"; the engine has been asked once in the
\* session, debounceMs after the call of "ab" and for "ab"
C29_Witness ==
    /\ ev.op = "debounceTimer"
    /\ ev.dispatched = 1
    /\ ev.prev # Null
    /\ ev.last # Null
    /\ ev.prev[1].text = <<"a", " ", "b">>
    /\ ev.last[1].text = <<"a", "b">>
    /\ ev.last[1].at - ev.prev[1].at < DebounceMs
    /\ ev.last[1].at > ev.prev[1].at
    /\ now = ev.last[1].at + DebounceMs
    /\ \E r \in inflight : r.id = 1 /\ r.text = <<"a", "b">>

\* ---------------------------------------------------------------------------
\* AutocompleteTextarea (around useAutocomplete) and
\* OptimizedAutocompleteTextarea (around useOptimizedAutocomplete).  The
\* component is controlled: the parent renders it again with the value it was
\* given through onChange.  ev.calls lists the callbacks a handler made,
\* ev.prevented whether it called e.preventDefault().  Rendering, the ghost
\* overlay and the deferred setSelectionRange are left out.
\* ---------------------------------------------------------------------------

AcceptKey == "Tab"
DismissKey == "Escape"
Keys == {AcceptKey, DismissKey}
ComponentKinds == {"AutocompleteTextarea", "OptimizedAutocompleteTextarea"}
KeysHorizon == 2

KeysObservations ==
    { <<<<"a", "b", ".">>, 3>>,
      <<<<"a", "b", ".", "c">>, 4>>,
      <<<<"a", "b", "!", "c">>, 3>> }

call(s, name, arg) == [s EXCEPT !.ev.calls = Append(@, <<name, arg>>)]

onChange(s, newValue) ==
    call([s EXCEPT !.component.value = newValue], "onChange", newValue)

setCursorPosition(s, c) == [s EXCEPT !.component.cursorPosition = c]

\* acceptCompletion / dismissCompletion of the hook the component uses
hookAcceptCompletion(s) ==
    IF s.component.kind = "OptimizedAutocompleteTextarea"
    THEN acceptCompletion(s) ELSE basicAcceptCompletion(s)

hookDismissCompletion(s) ==
    IF s.component.kind = "OptimizedAutocompleteTextarea"
    THEN dismissCompletion(s) ELSE basicDismissCompletion(s)

\* the accepted text appended to the value instead of inserted at the cursor
newValueAppended(value, cursorPosition, acceptedCompletion) ==
    value \o acceptedCompletion

newValue(value, cursorPosition, acceptedCompletion) ==
    LET afterCursor == substring(value, cursorPosition, Len(value))
    IN  beforeCursor(value, cursorPosition) \o acceptedCompletion \o afterCursor

handleKeyDown(s, key) ==
    IF truthy(s.completion) /\ key = AcceptKey
    THEN LET s1 == hookAcceptCompletion([s EXCEPT !.ev.prevented = TRUE])
             acceptedCompletion == s1.ev.ret
             value == s.component.value
             cursorPosition == s.component.cursorPosition
         IN  IF acceptedCompletion # <<>>
             THEN call(setCursorPosition(
                           onChange(s1, newValue(value, cursorPosition, acceptedCompletion)),
                           cursorPosition + Len(acceptedCompletion)),
                       "onCompletionAccept", acceptedCompletion)
             ELSE s1
    ELSE IF truthy(s.completion) /\ key = DismissKey
    THEN call(hookDismissCompletion([s EXCEPT !.ev.prevented = TRUE]),
              "onCompletionDismiss", <<>>)
    ELSE call(s, "onKeyDown", <<key>>)

handleChange(s, value, cursorPosition) ==
    debouncedFn(setCursorPosition(onChange(s, value), cursorPosition),
                value, cursorPosition)

optimizedHandleChange(s, value, cursorPosition) ==
    handleTextChange(setCursorPosition(onChange(s, value), cursorPosition),
                     value, cursorPosition)

handleSelect(s, selectionStart) ==
    call(setCursorPosition(s, selectionStart), "onSelect", <<>>)

InitKeys ==
    /\ InitHook
    /\ enabled /\ ~enableCache /\ ~triggerAtBreakpoints
    /\ component \in {[kind |-> k, value |-> <<>>, cursorPosition |-> 0] : k \in ComponentKinds}
    /\ context = NoContext
    /\ local = NoLocal

HandleChange ==
    /\ component.kind = "AutocompleteTextarea"
    /\ \E o \in KeysObservations :
         \E s \in {handleChange(Begin("handleChange"), o[1], o[2])} : Commit(s)

OptimizedHandleChange ==
    /\ component.kind = "OptimizedAutocompleteTextarea"
    /\ \E o \in KeysObservations :
         \E s \in {optimizedHandleChange(Begin("handleChange"), o[1], o[2])} :
            WithinBounds(s) /\ Commit(s)

HandleKeyDownWith(key) ==
    \E s \in {handleKeyDown(Begin("handleKeyDown"), key)} : Commit(s)

HandleKeyDown == \E key \in Keys : HandleKeyDownWith(key)

HandleSelect ==
    \E c \in 0..Len(component.value) :
        \E s \in {handleSelect(Begin("handleSelect"), c)} : Commit(s)

KeysDebounceFires == component.kind = "AutocompleteTextarea" /\ DebounceTimerFires

KeysPauseTimerFires == component.kind = "OptimizedAutocompleteTextarea" /\ PauseTimerFires

KeysInternalResolves == component.kind = "AutocompleteTextarea" /\ InternalResolves

KeysInternalRejects == component.kind = "AutocompleteTextarea" /\ InternalRejects

KeysEngineResolves == component.kind = "OptimizedAutocompleteTextarea" /\ EngineResolves

KeysEngineRejects == component.kind = "OptimizedAutocompleteTextarea" /\ EngineRejects

KeysTick ==
    /\ now < T0 + KeysHorizon
    /\ \A t \in timers : now < t.due
    /\ Commit([Begin("tick") EXCEPT !.now = @ + 1])

NextKeys ==
    \/ HandleChange
    \/ OptimizedHandleChange
    \/ HandleKeyDown
    \/ HandleSelect
    \/ KeysDebounceFires
    \/ KeysPauseTimerFires
    \/ KeysInternalResolves
    \/ KeysInternalRejects
    \/ KeysEngineResolves
    \/ KeysEngineRejects
    \/ KeysTick

SpecKeys == InitKeys /\ [][NextKeys]_vars

\* the value with the suggestion inserted at the cursor
inserted ==
    SubSeq(component.value, 1, component.cursorPosition)
        \o completion[1]
        \o SubSeq(component.value, component.cursorPosition + 1, Len(component.value))

\* C30: in both components, the accept key with a suggestion displayed calls
\* onChange with value[0:cursor] + suggestion + value[cursor:], moves the cursor
\* by the suggestion's length, clears the suggestion and reports it through
\* onCompletionAccept; the dismiss key with a suggestion displayed clears the
\* suggestion and leaves the value alone; with no suggestion displayed neither
\* key is intercepted.
C30_AcceptAndDismissKeys ==
    [][\A key \in {AcceptKey, DismissKey} :
        HandleKeyDownWith(key)
        => IF completion = Null
           THEN /\ ~ev'.prevented
                /\ ev'.calls = <<(<<"onKeyDown", <<key>>>>)>>
                /\ UNCHANGED <<completion, component>>
           ELSE IF key = AcceptKey
           THEN /\ ev'.prevented
                /\ ev'.calls = << <<"onChange", inserted>>,
                                  <<"onCompletionAccept", completion[1]>> >>
                /\ component'.value = inserted
                /\ component'.cursorPosition =
                       component.cursorPosition + Len(completion[1])
                /\ completion' = Null
           ELSE /\ ev'.prevented
                /\ completion' = Null
                /\ component'.value = component.value
                /\ \A i \in 1..Len(ev'.calls) : ev'.calls[i][1] # "onChange"]_vars

\* in OptimizedAutocompleteTextarea the suggestion "cd" has been accepted with
\* the cursor before the "c" of "ab!c"
C30_Witness ==
    /\ ev.op = "handleKeyDown"
    /\ ev.prevented
    /\ component.kind = "OptimizedAutocompleteTextarea"
    /\ component.value = <<"a", "b", "!", "c", "d", "c">>
    /\ component.cursorPosition = 5
    /\ completion = Null
    /\ Len(ev.calls) = 2
    /\ ev.calls[2] = <<"onCompletionAccept", <<"c", "d">>>>

\* ---------------------------------------------------------------------------
\* The hook with its default options under observations whose lengths differ
\* by more than 3 characters, so that one fire can follow another within the
\* cooldown (a request is still in flight when the next observation fires).
\* ---------------------------------------------------------------------------

OverlapObservations ==
    { <<<<"a", "b", ".">>, 3>>,
      <<<<"a", "b", "!", "c", "d", "e", "f">>, 3>>,
      <<<<"a", "b", "!", "c", "d", "e", "f">>, 7>> }

OverlapHandleTextChange == \E o \in OverlapObservations : HandleTextChangeWith(o)

NextOverlap ==
    \/ OverlapHandleTextChange
    \/ PauseTimerFires
    \/ EngineResolves
    \/ EngineRejects
    \/ AcceptCompletion
    \/ DismissCompletion
    \/ Tick

SpecOverlap == InitLive /\ [][NextOverlap]_vars

\* the step just taken fired the trigger and displayed what the cache returned
shownFromCache ==
    /\ ev.op \in {"handleTextChange", "pauseTimer"}
    /\ ev.fired
    /\ truthy(ev.cached)
    /\ completion = ev.cached

\* C32: with a request for O1 in flight, a later fire for a different
\* observation O2 is answered from the cache; O1's response, arriving next, does
\* not replace the suggestion shown for O2.
C32_CacheAnswerNotReplaced ==
    [][\A r \in inflight, response \in Responses :
        (shownFromCache /\ lastText # r.text /\ ~r.aborted /\ EngineResolvesWith(r, response))
        => completion' = completion]_vars

\* a newer request has been dispatched since r
superseded(r) == r.id < nextId - 1

\* C33: a failure other than a cancellation of a superseded request changes
\* nothing in the session: the suggestion, lastError and the isPending raised for
\* the newer request stay as they are.
C33_SupersededFailureIgnored ==
    [][\A r \in inflight :
        (superseded(r) /\ EngineRejectsWith(r, "Error"))
        => UNCHANGED <<completion, error, isLoading>>]_vars

C34_CooldownBetweenFires ==
    [][(ev'.fired /\ lastText # <<>>)
        => /\ lastText' # lastText
           /\ \/ Abs(Len(lastText') - Len(lastText)) > SignificantDelta
              \/ lastTriggerTime' - lastTriggerTime > Cooldown]_vars

\* "ab!" has fired right after "ab." had fired: one character apart, and more
\* than cooldown later
C34_Witness ==
    /\ checked
    /\ ev.fired
    /\ ev.prev # Null
    /\ ev.prev[1].fired
    /\ ev.prev[1].text = <<"a", "b", ".">>
    /\ lastText = <<"a", "b", "!">>
    /\ lastTriggerTime = now

\* C35: lastText and lastTriggerTime change only in a step in which the trigger
\* fires (at once or when the delay elapses) or in a reset; an observation that
\* is suppressed or only arms a delay leaves both as they are.
C35_TriggerRecordFrame ==
    [][(lastText' # lastText \/ lastTriggerTime' # lastTriggerTime)
        => (ev'.fired \/ ev'.op = "reset")]_vars

\* after a fire, an observation of another text has armed a delay and the record
\* still holds the fired text and its time
C35_Witness ==
    /\ checked
    /\ ~ev.fired
    /\ pauseTimer # Null
    /\ lastText # <<>>
    /\ lastText # obsText
    /\ lastTriggerTime < now

\* the cache holds one entry, the one stored by the last set
soleEntryOfLastSet ==
    /\ ev.lastSet # Null
    /\ Len(cache) = 1
    /\ cache[1].key = generateKey(ev.lastSet[1].text, ev.lastSet[1].cursorPosition)
    /\ cache[1].timestamp = ev.lastSet[1].at

\* C37: a completion r returned by getByPrefix(text, cursor) from the entry
\* cached by set(text0, cursor0, c0) continues the text consistently:
\* text[0:cursor] + r equals text0[0:cursor0] + c0, also when the two contexts
\* differ only in whitespace that the key's trimming removes.
C37_PrefixLookupSound ==
    (ev.op = "getByPrefix" /\ ev.cached # Null /\ soleEntryOfLastSet)
    => beforeCursor(obsText, obsCursor) \o ev.cached[1]
         = beforeCursor(ev.lastSet[1].text, ev.lastSet[1].cursorPosition)
             \o ev.lastSet[1].completion

\* C38: a set with a key that is already present replaces that entry alone: no
\* other entry is removed or changed, also when the cache is at capacity.
C38_ReplaceKeepsOthers ==
    [][(ev'.op = "set" /\ indexOf(cache, obsKey') # 0)
        => /\ Len(cache') = Len(cache)
           /\ \A j \in 1..Len(cache) :
                cache[j].key # obsKey'
                => \E k \in 1..Len(cache') : cache'[k] = cache[j]]_vars

\* ---------------------------------------------------------------------------
\* AutocompleteProvider (src/unnamed/part_002): the context that binds the
\* provider.  Each setProvider call runs to its await of isAvailable() in one
\* step and continues in another when that promise settles.  ev.last is the
\* outcome of the call started last, once it has settled.
\* ---------------------------------------------------------------------------

MaxSetProviderCalls == 3
ProviderConfigs == {"openai", "local", "unknown"}
Availabilities == {"available", "unavailable", "rejects"}

\* createProvider: the provider's identity, or Null when it throws
createProvider(config) == IF config \in {"openai", "local"} THEN Some(config) ELSE Null

\* the catch and finally blocks of setProvider
setProviderFailed(s) ==
    [s EXCEPT !.context.error = "Error", !.context.provider = Null,
              !.context.isLoading = FALSE]

\* setProvider up to its await
setProvider(s, config) ==
    LET s1 == [s EXCEPT !.context.isLoading = TRUE, !.context.error = "null",
                        !.context.nextCall = @ + 1]
    IN  IF createProvider(config) = Null
        THEN setProviderFailed(s1)
        ELSE [s1 EXCEPT !.context.pending =
                            @ \cup {[id |-> s.context.nextCall, config |-> config]}]

\* setProvider after its await, with no test on which call is continuing
availabilitySettled(s, c, outcome) ==
    IF outcome = "available"
    THEN [s EXCEPT !.context.provider = createProvider(c.config),
                   !.context.isLoading = FALSE]
    ELSE setProviderFailed(s)

InitProvider ==
    /\ InitHook
    /\ ~enabled /\ ~enableCache /\ ~triggerAtBreakpoints
    /\ component = NoComponent
    /\ local = NoLocal
    /\ context \in {[NoContext EXCEPT !.provider = p] : p \in {Null, Some("openai")}}

ProviderBegin(op) == [Cur EXCEPT !.ev = [Event(op) EXCEPT !.last = ev.last]]

outcomeOf(s) == Some([provider |-> s.context.provider, error |-> s.context.error])

SetProviderWith(config) ==
    /\ context.nextCall <= MaxSetProviderCalls
    /\ \E s \in {setProvider(ProviderBegin("setProvider"), config)} :
          Commit([s EXCEPT !.ev.last = IF createProvider(config) = Null
                                       THEN outcomeOf(s) ELSE Null])

SetProvider == \E config \in ProviderConfigs : SetProviderWith(config)

AvailabilitySettlesWith(c, outcome) ==
    \E s \in {availabilitySettled(
                  [ProviderBegin("isAvailable") EXCEPT !.context.pending = @ \ {c}],
                  c, outcome)} :
        Commit([s EXCEPT !.ev.last = IF c.id = context.nextCall - 1
                                     THEN outcomeOf(s) ELSE @])

AvailabilitySettles ==
    \E c \in context.pending, outcome \in Availabilities :
        AvailabilitySettlesWith(c, outcome)

NextProvider ==
    \/ SetProvider
    \/ AvailabilitySettles

SpecProvider == InitProvider /\ [][NextProvider]_vars

\* C31: setProvider raises isLoading and clears error while it runs; a provider
\* that reports itself available becomes the bound provider; one that is
\* unavailable or cannot be created leaves error set and no provider bound; in
\* both cases isLoading is false once the call has settled.
C31_SetProviderLifecycle ==
    [][/\ \A config \in ProviderConfigs :
            SetProviderWith(config)
            => IF createProvider(config) # Null
               THEN context'.isLoading /\ context'.error = "null"
               ELSE /\ context'.error = "Error"
                    /\ context'.provider = Null
                    /\ ~context'.isLoading
       /\ \A c \in context.pending, outcome \in Availabilities :
            AvailabilitySettlesWith(c, outcome)
            => /\ ~context'.isLoading
               /\ IF outcome = "available"
                  THEN context'.provider = Some(c.config)
                  ELSE context'.error = "Error" /\ context'.provider = Null
       /\ context'.pending # {}
            => context'.isLoading /\ context'.error = "null"]_vars

\* C39: when setProvider calls overlap, once all have settled the bound provider
\* and the recorded error are those of the call started last, whatever the order
\* in which the availability checks complete.
C39_LaterCallWins ==
    (context.pending = {} /\ ev.last # Null)
    => /\ context.provider = ev.last[1].provider
       /\ context.error = ev.last[1].error

\* ---------------------------------------------------------------------------
\* LocalProvider (src/src/providers/local.ts): one provider object, several
\* complete() calls.  A call runs synchronously to its first await; the parts
\* after an await are separate steps.  local.created counts the invocations of
\* CreateMLCEngine.
\* ---------------------------------------------------------------------------

MaxLocalCalls == 3

\* initializeEngine of the call `id`, up to its await, without the test of
\* this.initPromise
initializeEngineNoWait(s, id) ==
    LET at(pc) == [s EXCEPT !.local.calls =
                       @ \cup {[id |-> id, pc |-> pc,
                                duringInit |-> s.local.isInitializing]}]
    IN  IF s.local.engine # Null THEN at("chat")
        ELSE IF ~s.local.webllm THEN at("threw")
        ELSE [at("awaitInit") EXCEPT !.local.isInitializing = TRUE,
                                     !.local.initPromise = "pending",
                                     !.local.created = @ + 1]

\* initializeEngine of the call `id`, up to its await; a call that finds the
\* engine goes on to the chat request
initializeEngine(s, id) ==
    LET at(pc) == [s EXCEPT !.local.calls =
                       @ \cup {[id |-> id, pc |-> pc,
                                duringInit |-> s.local.isInitializing]}]
    IN  IF s.local.engine # Null THEN at("chat")
        ELSE IF s.local.initPromise # "null" THEN at("awaitInit")
        ELSE IF ~s.local.webllm THEN at("threw")
        ELSE [at("awaitInit") EXCEPT !.local.isInitializing = TRUE,
                                     !.local.initPromise = "pending",
                                     !.local.created = @ + 1]

\* complete() up to its first await
complete(s) ==
    initializeEngine([s EXCEPT !.local.nextCall = @ + 1], s.local.nextCall)

\* complete() after `await this.initializeEngine()`
initAwaited(s, c) ==
    LET to(pc) == [s EXCEPT !.local.calls = (@ \ {c}) \cup {[c EXCEPT !.pc = pc]}]
    IN  IF s.local.initPromise = "rejected" \/ s.local.engine = Null
        THEN to("threw")
        ELSE to("chat")

\* the async function behind initPromise after CreateMLCEngine has settled
engineCreated(s, ok) ==
    [s EXCEPT !.local.engine = IF ok THEN Some("engine") ELSE @,
              !.local.isInitializing = FALSE,
              !.local.initPromise = IF ok THEN "fulfilled" ELSE "rejected"]

chatSettled(s, c, ok) ==
    [s EXCEPT !.local.calls =
         (@ \ {c}) \cup {[c EXCEPT !.pc = IF ok THEN "done" ELSE "threw"]}]

InitLocal ==
    /\ InitHook
    /\ ~enabled /\ ~enableCache /\ ~triggerAtBreakpoints
    /\ component = NoComponent
    /\ context = NoContext
    /\ local \in {[NoLocal EXCEPT !.webllm = w] : w \in BOOLEAN}

LocalBegin(op) == [Cur EXCEPT !.ev = Event(op)]

\* the WebLLM script finishes loading
LoadWebLLM ==
    /\ ~local.webllm
    /\ \E s \in {[LocalBegin("loadWebLLM") EXCEPT !.local.webllm = TRUE]} : Commit(s)

Complete ==
    /\ local.nextCall <= MaxLocalCalls
    /\ \E s \in {complete(LocalBegin("complete"))} : Commit(s)

CreateEngineResolves ==
    /\ local.initPromise = "pending"
    /\ \E s \in {engineCreated(LocalBegin("createResolves"), TRUE)} : Commit(s)

CreateEngineRejects ==
    /\ local.initPromise = "pending"
    /\ \E s \in {engineCreated(LocalBegin("createRejects"), FALSE)} : Commit(s)

InitializeEngineReturns ==
    /\ local.initPromise \in {"fulfilled", "rejected"}
    /\ \E c \in {k \in local.calls : k.pc = "awaitInit"} :
          \E s \in {initAwaited(LocalBegin("initAwaited"), c)} : Commit(s)

ChatResolves ==
    \E c \in {k \in local.calls : k.pc = "chat"} :
        \E s \in {chatSettled(LocalBegin("chatResolves"), c, TRUE)} : Commit(s)

ChatRejects ==
    \E c \in {k \in local.calls : k.pc = "chat"} :
        \E s \in {chatSettled(LocalBegin("chatRejects"), c, FALSE)} : Commit(s)

NextLocal ==
    \/ LoadWebLLM
    \/ Complete
    \/ CreateEngineResolves
    \/ CreateEngineRejects
    \/ InitializeEngineReturns
    \/ ChatResolves
    \/ ChatRejects

SpecLocal == InitLocal /\ [][NextLocal]_vars

\* C40: concurrent complete() calls on one LocalProvider create the WebLLM
\* engine at most once; a call that arrives while initialization is in progress
\* waits on that initialization and starts no other; no call is at the engine
\* before initialization has finished.
C40_EngineCreatedOnce ==
    [][/\ local'.created <= 1
       /\ (Complete /\ local.isInitializing)
            => /\ local'.created = local.created
               /\ \A c \in local'.calls \ local.calls : c.pc = "awaitInit"
       /\ \A c \in local'.calls :
            c.pc \in {"chat", "done"}
            => /\ local'.engine # Null
               /\ ~local'.isInitializing
               /\ local'.initPromise = "fulfilled"]_vars

\* two calls, the second of which arrived during initialization, are both at
\* the engine after one creation
C40_Witness ==
    /\ local.created = 1
    /\ \E c, d \in local.calls :
          /\ c.id # d.id
          /\ ~c.duringInit /\ d.duringInit
          /\ c.pc = "chat" /\ d.pc \in {"chat", "done"}

====
